---- MODULE Spec2Model ----
(***************************************************************************)
(* Model of scripts/generate-mock-data.py: the mock backup data generator  *)
(* of Amber.  One sequential process (main) builds a SQLite database with  *)
(* the tables snapshots and files, a full-text search table files_fts      *)
(* kept in sync by triggers, dated snapshot folders and jobs.json.         *)
(*                                                                         *)
(* Strings are TLA+ strings (TLC concatenates them with \o), so a path is  *)
(* the text the program builds.  Quantities that do not fit the model      *)
(* checker's integers are scaled down: times are milliseconds counted from *)
(* a small epoch, cumulative sizes are counted in megabytes, the catalogs  *)
(* of templates and directories are cut to a few entries.                  *)
(***************************************************************************)
EXTENDS Bags, FiniteSets, Integers, Sequences, TLC

(***************************************************************************)
(* Bounds of the model                                                     *)
(***************************************************************************)
MaxRuns == 2          \* runs of main() in one behaviour
RangeMs == 12000      \* stands for timedelta(days=730), in milliseconds
DocsSnapshots == 2    \* num_snapshots of the documents job (50 in the source)
MediaSnapshots == 3   \* num_snapshots of the media job (35 in the source)
BatchSize == 2        \* batch_size of generate_snapshot (50_000 in the source)
MaxWrites == 2        \* writes of a consumer on files after a run
MaxReapply == 2       \* repeated applications of the schema functions

(***************************************************************************)
(* Program constants                                                       *)
(***************************************************************************)
Seed == 42            \* random.Random(42)
MsPerSecond == 1000   \* timestamp_ms / 1000, base_timestamp // 1000

(***************************************************************************)
(* Text helpers: str(int) and zero padded fields of strftime               *)
(***************************************************************************)
Digit(d) ==
    CASE d = 0 -> "0" [] d = 1 -> "1" [] d = 2 -> "2" [] d = 3 -> "3"
      [] d = 4 -> "4" [] d = 5 -> "5" [] d = 6 -> "6" [] d = 7 -> "7"
      [] d = 8 -> "8" [] OTHER -> "9"

RECURSIVE NatToStr(_)
NatToStr(n) == IF n < 10 THEN Digit(n) ELSE NatToStr(n \div 10) \o Digit(n % 10)

IntToStr(n) == IF n < 0 THEN "-" \o NatToStr(0 - n) ELSE NatToStr(n)

Pad2(n) == IF n < 10 THEN "0" \o NatToStr(n) ELSE NatToStr(n)

Pad4(n) ==
    IF n < 10 THEN "000" \o NatToStr(n)
    ELSE IF n < 100 THEN "00" \o NatToStr(n)
    ELSE IF n < 1000 THEN "0" \o NatToStr(n)
    ELSE NatToStr(n)

RECURSIVE JoinSlash(_)
JoinSlash(parts) ==
    IF Len(parts) = 0 THEN ""
    ELSE IF Len(parts) = 1 THEN parts[1]
    ELSE JoinSlash(SubSeq(parts, 1, Len(parts) - 1)) \o "/" \o parts[Len(parts)]

(***************************************************************************)
(* Paths.  SCRIPT_DIR is the absolute directory of the repository;         *)
(* Path.resolve() yields the absolute text of a path below it.             *)
(***************************************************************************)
SCRIPT_DIR == "/repo"
MOCK_DATA_DIR == <<"mock-data">>
JOBS_JSON_PATH == MOCK_DATA_DIR \o <<"jobs.json">>
DB_PATH == MOCK_DATA_DIR \o <<"dev-index.db">>

Resolve(parts) == SCRIPT_DIR \o "/" \o JoinSlash(parts)

(***************************************************************************)
(* Catalogs (cut down) and the job configuration                           *)
(* A template is <<extension, name_parts, min_size, max_size>>; a          *)
(* directory is the sequence of its components.                            *)
(***************************************************************************)
DOCUMENT_TEMPLATES ==
    << <<"pdf", <<"report", "invoice">>, 5, 6>>,
       <<"txt", <<"notes">>, 1, 3>> >>

CODE_TEMPLATES == << <<"py", <<"main">>, 2, 4>> >>

MEDIA_TEMPLATES ==
    << <<"jpg", <<"photo", "image">>, 10, 12>>,
       <<"mp4", <<"video">>, 20, 21>> >>

DOCUMENT_DIRS == << <<"Documents">>, <<"Documents", "Work">> >>

MEDIA_DIRS == << <<"Photos">> >>

DocsJob ==
    [id |-> "dev-documents-backup", name |-> "Documents Backup",
     source_path |-> "/Users/demo/Documents",
     num_snapshots |-> DocsSnapshots,
     files_per_snapshot |-> <<1, 3>>,
     templates |-> DOCUMENT_TEMPLATES \o CODE_TEMPLATES,
     directories |-> DOCUMENT_DIRS]

MediaJob ==
    [id |-> "dev-media-archive", name |-> "Media Archive",
     source_path |-> "/Users/demo/Media",
     num_snapshots |-> MediaSnapshots,
     files_per_snapshot |-> <<1, 2>>,
     templates |-> MEDIA_TEMPLATES,
     directories |-> MEDIA_DIRS]

JOBS == <<DocsJob, MediaJob>>

\* The job lists a run may be configured with: the list of the source, and
\* the same list with the other job taken out.
Configurations == {JOBS, <<MediaJob>>, <<DocsJob>>}

JobIds == {DocsJob.id, MediaJob.id}

\* the test `"documents" in job_id` of generate_snapshot and generate_jobs_json
ContainsDocuments(job_id) == job_id = "dev-documents-backup"

\* wall-clock readings datetime.now() of a run, in milliseconds
Clock == {50000, 50250, 61001}

(***************************************************************************)
(* random.Random: a deterministic stream.  The generator is a linear       *)
(* congruential one here; a call advances the state and derives its value  *)
(* from the new state.                                                     *)
(***************************************************************************)
RngModulus == 65536 + 1

RngStep(s) == (75 * s + 74) % RngModulus

\* the states Random(Seed) may start from: the seeding function is not
\* modelled, only that equal seeds start equal streams
SeedStates == {Seed, Seed + 1000, Seed + 31000}

\* rng.randint(a, b): [value, next state]
RandInt(a, b, s) ==
    LET t == RngStep(s) IN [v |-> a + (t % (b - a + 1)), s |-> t]

\* rng.choice(seq)
Choice(seq, s) ==
    LET t == RngStep(s) IN [v |-> seq[1 + (t % Len(seq))], s |-> t]

\* rng.random(), in thousandths
Random1000(s) ==
    LET t == RngStep(s) IN [v |-> (t * 1000) \div RngModulus, s |-> t]

\* rng.uniform(a, b) = a + (b - a) * random(), a, b and the value in hundredths
Uniform100(a, b, s) ==
    LET r == Random1000(s) IN [v |-> a + ((b - a) * r.v) \div 1000, s |-> r.s]

(***************************************************************************)
(* generate_file: one random file entry.  The draws are made in the order  *)
(* of the source: template, name, directory, suffix, variant, size, mtime  *)
(* offset, inode.                                                          *)
(***************************************************************************)
Variants == <<"", "_v2", "_final", "">>

SuffixRange == <<1, 3>>         \* rng.randint(1, 9999)
MtimeOffsetRange == <<0, 2>>    \* rng.randint(0, 60 * 24 * 60 * 60)
InodeRange == <<100, 103>>      \* rng.randint(1_000_000, 99_999_999)

generate_file(templates, directories, base_timestamp, s0) ==
    LET tpl == Choice(templates, s0)
        ext == tpl.v[1]
        names == tpl.v[2]
        min_size == tpl.v[3]
        max_size == tpl.v[4]
        name_base == Choice(names, tpl.s)
        directory == Choice(directories, name_base.s)
        suffix == RandInt(SuffixRange[1], SuffixRange[2], directory.s)
        variant == Choice(Variants, suffix.s)
        name == name_base.v \o variant.v \o "_" \o IntToStr(suffix.v) \o "." \o ext
        path == JoinSlash(directory.v) \o "/" \o name
        size == RandInt(min_size, max_size, variant.s)
        mtime_offset == RandInt(MtimeOffsetRange[1], MtimeOffsetRange[2], size.s)
        mtime == (base_timestamp \div MsPerSecond) - mtime_offset.v
        inode == RandInt(InodeRange[1], InodeRange[2], mtime_offset.s)
    IN  [path |-> path, name |-> name, directory |-> JoinSlash(directory.v),
         size |-> size.v, mtime |-> mtime, inode |-> inode.v,
         file_type |-> "file", rng |-> inode.s]

(***************************************************************************)
(* timestamp_to_folder_name: local time of a millisecond timestamp as      *)
(* YYYY-MM-DD-HHMMSS.  The local time zone is taken to be UTC.             *)
(***************************************************************************)
CivilFromDays(days) ==
    LET z == days + 719468
        era == z \div 146097
        doe == z - era * 146097
        yoe == (doe - doe \div 1460 + doe \div 36524 - doe \div 146096) \div 365
        doy == doe - (365 * yoe + yoe \div 4 - yoe \div 100)
        mp == (5 * doy + 2) \div 153
        d == doy - (153 * mp + 2) \div 5 + 1
        m == IF mp < 10 THEN mp + 3 ELSE mp - 9
        y == yoe + era * 400 + (IF m <= 2 THEN 1 ELSE 0)
    IN  [year |-> y, month |-> m, day |-> d]

\* strftime("%Y-%m-%d-%H%M"): the seconds left out of the format
timestamp_to_folder_name_minutes(timestamp_ms) ==
    LET secs == timestamp_ms \div MsPerSecond
        date == CivilFromDays(secs \div 86400)
        sod == secs % 86400
    IN  Pad4(date.year) \o "-" \o Pad2(date.month) \o "-" \o Pad2(date.day)
          \o "-" \o Pad2(sod \div 3600) \o Pad2((sod % 3600) \div 60)

timestamp_to_folder_name(timestamp_ms) ==
    LET secs == timestamp_ms \div MsPerSecond
        date == CivilFromDays(secs \div 86400)
        sod == secs % 86400
    IN  Pad4(date.year) \o "-" \o Pad2(date.month) \o "-" \o Pad2(date.day)
          \o "-" \o Pad2(sod \div 3600) \o Pad2((sod % 3600) \div 60)
          \o Pad2(sod % 60)

(***************************************************************************)
(* The timestamp of snapshot i of a job with n snapshots (main):           *)
(* int(two_years_ago_ms + (time_range / n) * i).                           *)
(***************************************************************************)
TwoYearsAgo(now_ms) == now_ms - RangeMs

\* the index divided by the number of snapshots, as the interval is
SnapshotTimestamp_no_index(now_ms, n, i) ==
    TwoYearsAgo(now_ms) + ((now_ms - TwoYearsAgo(now_ms)) \div n) * (i \div n)

SnapshotTimestamp(now_ms, n, i) ==
    TwoYearsAgo(now_ms) + (((now_ms - TwoYearsAgo(now_ms)) * i) \div n)

\* num_files = int(base_files * (1.0 + (snapshot_index / total_snapshots) * 0.5))
NumFiles(base_files, snapshot_index, total_snapshots) ==
    (base_files * (2 * total_snapshots + snapshot_index)) \div (2 * total_snapshots)

\* root_path of a snapshot: str((MOCK_DATA_DIR / job_id / folder_name).resolve())
RootPath(job_id, timestamp) ==
    Resolve(MOCK_DATA_DIR \o <<job_id, timestamp_to_folder_name(timestamp)>>)

\* the NULL of an integer column (the inode of a directory row)
NULL == 0 - 1

\* one row of dir_data: name and parent from directory.rsplit("/", 1)
DirRow(snapshot_id, root_path, directory, timestamp) ==
    [snapshot_id |-> snapshot_id,
     path |-> root_path \o "/" \o JoinSlash(directory),
     name |-> directory[Len(directory)],
     parent_path |-> JoinSlash(SubSeq(directory, 1, Len(directory) - 1)),
     size |-> 0, mtime |-> timestamp \div MsPerSecond, inode |-> NULL,
     file_type |-> "dir"]

\* one tuple of files_data
FileRow(snapshot_id, root_path, f) ==
    [snapshot_id |-> snapshot_id,
     path |-> root_path \o "/" \o f.path,
     name |-> f.name, parent_path |-> f.directory,
     size |-> f.size, mtime |-> f.mtime, inode |-> f.inode,
     file_type |-> f.file_type]

(***************************************************************************)
(* sorted(snapshots, key=lambda s: s["timestamp"], reverse=True): a stable *)
(* sort, largest timestamp first.                                          *)
(***************************************************************************)
RECURSIVE InsertSorted(_, _)
InsertSorted(sorted, e) ==
    IF Len(sorted) = 0 THEN <<e>>
    ELSE IF sorted[Len(sorted)].timestamp >= e.timestamp THEN Append(sorted, e)
    ELSE Append(InsertSorted(SubSeq(sorted, 1, Len(sorted) - 1), e),
                sorted[Len(sorted)])

\* sorted(...) without reverse=True: a stable sort, smallest timestamp first
RECURSIVE InsertSortedAscending(_, _)
InsertSortedAscending(sorted, e) ==
    IF Len(sorted) = 0 THEN <<e>>
    ELSE IF sorted[Len(sorted)].timestamp <= e.timestamp THEN Append(sorted, e)
    ELSE Append(InsertSortedAscending(SubSeq(sorted, 1, Len(sorted) - 1), e),
                sorted[Len(sorted)])

RECURSIVE SortedOldestFirst(_)
SortedOldestFirst(seq) ==
    IF Len(seq) = 0 THEN <<>>
    ELSE InsertSortedAscending(SortedOldestFirst(SubSeq(seq, 1, Len(seq) - 1)),
                               seq[Len(seq)])

RECURSIVE SortedNewestFirst(_)
SortedNewestFirst(seq) ==
    IF Len(seq) = 0 THEN <<>>
    ELSE InsertSorted(SortedNewestFirst(SubSeq(seq, 1, Len(seq) - 1)), seq[Len(seq)])

(***************************************************************************)
(* State                                                                   *)
(***************************************************************************)
VARIABLES
    pc,                  \* position of main(): idle, schema, begin, loop, files,
                         \* dirs, update, track, indexes, fts, close, folders,
                         \* json, done, failed
    runs,                \* runs of main() started so far
    now,                 \* datetime.now() of the current run, milliseconds
    config,              \* the job list of the current run
    rngInit,             \* the state Random(Seed) starts from
    rng,                 \* state of rng
    jobIdx,              \* position of `for job in JOBS` (from 1)
    snapIdx,             \* i of `for i in range(num_snapshots)`
    loc,                 \* locals of the running generate_snapshot
    GENERATED_SNAPSHOTS, \* job id -> list of snapshot entries
    CUMULATIVE_SIZES,    \* job id -> cumulative size
    dbExists,            \* DB_PATH exists on disk
    dbObjects,           \* tables, indexes, triggers of the database
    snapshots,           \* rows of table snapshots
    files,               \* rows of table files
    fts,                 \* entries of files_fts: a bag of <<rowid, name, path>>
    txn,                 \* none, open, committed
    nextFileId,          \* AUTOINCREMENT of files
    folders,             \* directories on disk, as components below SCRIPT_DIR
    jobsJson,            \* JOBS_JSON_PATH: [exists, jobs]
    curPop,              \* populations generated by the current run
    prevPop,             \* populations generated by the last completed run
    uniqueViolated,      \* an insert hit UNIQUE(job_id, timestamp)
    writes,              \* consumer writes on files since the run ended
    audit                \* what the statements of the run did to the database

vars == <<pc, runs, now, config, rngInit, rng, jobIdx, snapIdx, loc,
          GENERATED_SNAPSHOTS, CUMULATIVE_SIZES, dbExists, dbObjects,
          snapshots, files, fts, txn, nextFileId, folders, jobsJson,
          curPop, prevPop, uniqueViolated, writes, audit>>

memVars == <<GENERATED_SNAPSHOTS, CUMULATIVE_SIZES>>
dbVars == <<dbExists, dbObjects, snapshots, files, fts, txn, nextFileId>>
diskVars == <<folders, jobsJson>>
runVars == <<runs, now, config, rngInit>>
traceVars == <<curPop, prevPop, uniqueViolated, writes>>
histVars == <<traceVars, audit>>

NoLoc ==
    [snapshot_id |-> 0, timestamp |-> 0, root_path |-> "", num_files |-> 0,
     i |-> 0, files_data |-> <<>>, total_size |-> 0]

EmptyDict == [k \in {} |-> 0]

DictSet(d, k, v) == [x \in DOMAIN d \cup {k} |-> IF x = k THEN v ELSE d[x]]

DictGet(d, k, default) == IF k \in DOMAIN d THEN d[k] ELSE default

(***************************************************************************)
(* The record of a run's statements: BEGINs, commits of the bulk           *)
(* transaction, passes that populate files_fts, bulk inserts made once an  *)
(* index on files exists, per snapshot id the INSERTs and UPDATEs of its   *)
(* row with the row and the number of its files rows at the UPDATE, per    *)
(* job the growth amounts, and the database objects and search entries     *)
(* left by the first create_indexes_and_fts.                               *)
(***************************************************************************)
NoAudit ==
    [begins |-> 0, commits |-> 0, populates |-> 0, lateInsert |-> FALSE,
     snapInserts |-> EmptyDict, statUpdates |-> EmptyDict,
     rowsAtUpdate |-> EmptyDict, finalRow |-> EmptyDict,
     growths |-> EmptyDict,
     applied |-> [objects |-> {}, fts |-> EmptyBag], reapplied |-> 0]

\* conn.commit(): ends the open transaction, if there is one
AfterCommit(t) == IF t = "open" THEN "committed" ELSE t

CommitAudit(a, t) == IF t = "open" THEN [a EXCEPT !.commits = @ + 1] ELSE a

Init ==
    /\ pc = "idle"
    /\ runs = 0
    /\ now = 0
    /\ config = JOBS
    /\ rngInit \in SeedStates
    /\ rng = rngInit
    /\ jobIdx = 1
    /\ snapIdx = 0
    /\ loc = NoLoc
    /\ GENERATED_SNAPSHOTS = EmptyDict
    /\ CUMULATIVE_SIZES = EmptyDict
    /\ dbExists = FALSE
    /\ dbObjects = {}
    /\ snapshots = {}
    /\ files = {}
    /\ fts = EmptyBag
    /\ txn = "none"
    /\ nextFileId = 1
    /\ folders = {}
    /\ jobsJson = [exists |-> FALSE, jobs |-> <<>>]
    /\ curPop = {}
    /\ prevPop = {}
    /\ uniqueViolated = FALSE
    /\ writes = 0
    /\ audit = NoAudit

IsPrefix(p, q) == Len(p) <= Len(q) /\ SubSeq(q, 1, Len(p)) = p

(***************************************************************************)
(* main, lines 613-664: reset the globals, create mock-data, remove the    *)
(* old database and the old folders of the configured jobs, seed rng, read *)
(* the clock.                                                              *)
(***************************************************************************)
StartRun ==
    /\ pc \in {"idle", "done", "failed"}
    /\ runs < MaxRuns
    /\ \E t \in Clock, cfg \in Configurations :
        /\ t > now
        /\ now' = t
        /\ config' = cfg
        /\ folders' =
             {p \in folders \cup {MOCK_DATA_DIR} :
                 \A k \in 1..Len(cfg) : ~IsPrefix(MOCK_DATA_DIR \o <<cfg[k].id>>, p)}
    /\ runs' = runs + 1
    /\ GENERATED_SNAPSHOTS' = EmptyDict
    /\ CUMULATIVE_SIZES' = EmptyDict
    /\ dbExists' = FALSE
    /\ dbObjects' = {}
    /\ snapshots' = {}
    /\ files' = {}
    /\ fts' = EmptyBag
    /\ txn' = "none"
    /\ nextFileId' = 1
    /\ rng' = rngInit
    /\ jobIdx' = 1
    /\ snapIdx' = 0
    /\ loc' = NoLoc
    /\ prevPop' = IF pc = "done" THEN curPop ELSE prevPop
    /\ curPop' = {}
    /\ writes' = 0
    /\ audit' = NoAudit
    /\ pc' = "schema"
    /\ UNCHANGED <<rngInit, jobsJson, uniqueViolated>>

(***************************************************************************)
(* sqlite3.connect and create_schema (lines 639-653, 300-333)              *)
(***************************************************************************)
SchemaObjects ==
    {"snapshots", "idx_snapshots_job", "idx_snapshots_timestamp", "files"}

\* the objects of create_indexes_and_fts: lines 340-342 and lines 349-372
FileIndexes == {"idx_files_snapshot", "idx_files_parent", "idx_files_name"}

FtsObjects == {"files_fts", "files_ai", "files_ad", "files_au"}

create_schema ==
    /\ pc = "schema"
    /\ dbExists' = TRUE
    /\ dbObjects' = dbObjects \cup SchemaObjects
    /\ txn' = AfterCommit(txn)
    /\ audit' = CommitAudit(audit, txn)
    /\ pc' = "begin"
    /\ UNCHANGED <<runVars, rng, jobIdx, snapIdx, loc, memVars, snapshots,
                   files, fts, nextFileId, diskVars, traceVars>>

\* conn.execute("BEGIN TRANSACTION"), line 667
BeginTransaction ==
    /\ pc = "begin"
    /\ txn' = "open"
    /\ audit' = [audit EXCEPT !.begins = @ + 1]
    /\ pc' = "loop"
    /\ UNCHANGED <<runVars, rng, jobIdx, snapIdx, loc, memVars, dbExists,
                   dbObjects, snapshots, files, fts, nextFileId, diskVars,
                   traceVars>>

(***************************************************************************)
(* The triggers of create_indexes_and_fts (lines 361-372) and the          *)
(* statements on table files.  An FTS entry is <<rowid, name, path>>; the  *)
(* 'delete' command takes one entry with the old values out.               *)
(***************************************************************************)
FtsEntry(row) == <<row.id, row.name, row.path>>

FtsAdd(f, row) == f (+) SetToBag({FtsEntry(row)})

FtsDelete(f, row) == f (-) SetToBag({FtsEntry(row)})

files_ai(f, new) == FtsAdd(f, new)

files_ad(f, old) == FtsDelete(f, old)

\* files_au without its 'delete' statement
files_au_no_delete(f, old, new) == FtsAdd(f, new)

files_au(f, old, new) == FtsAdd(FtsDelete(f, old), new)

WithId(row, id) ==
    [id |-> id, snapshot_id |-> row.snapshot_id, path |-> row.path,
     name |-> row.name, parent_path |-> row.parent_path, size |-> row.size,
     mtime |-> row.mtime, inode |-> row.inode, file_type |-> row.file_type]

RECURSIVE FtsAfterInserts(_, _)
FtsAfterInserts(f, rows) ==
    IF Len(rows) = 0 THEN f
    ELSE FtsAfterInserts(files_ai(f, rows[1]), SubSeq(rows, 2, Len(rows)))

\* conn.executemany("INSERT INTO files (...) VALUES (...)", rows)
InsertIntoFiles(rows) ==
    LET numbered == [k \in 1..Len(rows) |-> WithId(rows[k], nextFileId + k - 1)]
    IN  /\ files' = files \cup {numbered[k] : k \in 1..Len(rows)}
        /\ nextFileId' = nextFileId + Len(rows)
        /\ fts' = IF "files_ai" \in dbObjects
                  THEN FtsAfterInserts(fts, numbered) ELSE fts

\* the executemany of generate_snapshot: a bulk insert, on record when an
\* index on files or the search structure exists already
BulkInsert(rows) ==
    /\ InsertIntoFiles(rows)
    /\ audit' = [audit EXCEPT !.lateInsert =
                    @ \/ (dbObjects \cap (FileIndexes \cup FtsObjects) # {})]

(***************************************************************************)
(* A failing step: the exception ends the process.  What the database file *)
(* holds stays on disk (journal_mode = OFF, nothing is rolled back).       *)
(***************************************************************************)
Crash ==
    /\ pc' = "failed"
    /\ loc' = NoLoc
    /\ GENERATED_SNAPSHOTS' = EmptyDict
    /\ CUMULATIVE_SIZES' = EmptyDict
    /\ rng' = rngInit
    /\ jobIdx' = 1
    /\ snapIdx' = 0
    /\ txn' = "none"

Fail ==
    /\ pc \in {"schema", "loop", "files", "dirs", "update", "indexes", "fts"}
    /\ Crash
    /\ UNCHANGED <<runVars, dbExists, dbObjects, snapshots, files, fts,
                   nextFileId, diskVars, histVars>>

(***************************************************************************)
(* generate_snapshot, lines 417-448: folder name, root path, number of     *)
(* files, INSERT INTO snapshots.                                           *)
(***************************************************************************)
SnapshotRow(id, job_id, timestamp, root_path, file_count, total_size) ==
    [id |-> id, job_id |-> job_id, timestamp |-> timestamp,
     root_path |-> root_path, file_count |-> file_count,
     total_size |-> total_size]

InsertSnapshot ==
    /\ pc = "loop"
    /\ jobIdx <= Len(config)
    /\ snapIdx < config[jobIdx].num_snapshots
    /\ LET job == config[jobIdx]
           timestamp == SnapshotTimestamp(now, job.num_snapshots, snapIdx)
           root_path == RootPath(job.id, timestamp)
           base_files == RandInt(job.files_per_snapshot[1],
                                 job.files_per_snapshot[2], rng)
           num_files == NumFiles(base_files.v, snapIdx, job.num_snapshots)
           snapshot_id == Cardinality(snapshots) + 1
       IN  IF \E r \in snapshots : r.job_id = job.id /\ r.timestamp = timestamp
           THEN \* sqlite3.IntegrityError: UNIQUE(job_id, timestamp)
                /\ Crash
                /\ uniqueViolated' = TRUE
                /\ UNCHANGED <<runVars, dbExists, dbObjects, snapshots, files,
                               fts, nextFileId, diskVars, curPop, prevPop,
                               writes, audit>>
           ELSE /\ snapshots' = snapshots \cup
                       {SnapshotRow(snapshot_id, job.id, timestamp, root_path, 0, 0)}
                /\ loc' = [snapshot_id |-> snapshot_id, timestamp |-> timestamp,
                           root_path |-> root_path, num_files |-> num_files,
                           i |-> 0, files_data |-> <<>>, total_size |-> 0]
                /\ rng' = base_files.s
                /\ curPop' = curPop \cup
                       {[job |-> job.id, index |-> snapIdx, rows |-> <<>>]}
                /\ audit' = [audit EXCEPT !.snapInserts =
                                DictSet(@, snapshot_id,
                                        DictGet(@, snapshot_id, 0) + 1)]
                /\ pc' = "files"
                /\ UNCHANGED <<runVars, jobIdx, snapIdx, memVars, dbExists,
                               dbObjects, files, fts, txn, nextFileId, diskVars,
                               prevPop, uniqueViolated, writes>>

(***************************************************************************)
(* generate_snapshot, lines 450-466: one turn of `for i in range(num_files)`*)
(***************************************************************************)
PopEntry(f) ==
    [directory |-> f.directory, name |-> f.name, size |-> f.size,
     inode |-> f.inode]

GenerateFileStep ==
    /\ pc = "files"
    /\ loc.i < loc.num_files
    /\ LET job == config[jobIdx]
           f == generate_file(job.templates, job.directories, loc.timestamp, rng)
           data == Append(loc.files_data, FileRow(loc.snapshot_id, loc.root_path, f))
           full == Len(data) >= BatchSize
       IN  /\ rng' = f.rng
           /\ loc' = [loc EXCEPT !.i = @ + 1, !.total_size = @ + f.size,
                                 !.files_data = IF full THEN <<>> ELSE data]
           /\ IF full THEN BulkInsert(data)
                      ELSE UNCHANGED <<files, nextFileId, fts, audit>>
           /\ curPop' =
                {IF p.job = job.id /\ p.index = snapIdx
                 THEN [p EXCEPT !.rows = Append(@, PopEntry(f))] ELSE p : p \in curPop}
    /\ UNCHANGED <<pc, runVars, jobIdx, snapIdx, memVars, dbExists, dbObjects,
                   snapshots, txn, diskVars, prevPop, uniqueViolated, writes>>

\* lines 468-473: `if files_data: conn.executemany(...)`
InsertRemaining ==
    /\ pc = "files"
    /\ loc.i = loc.num_files
    /\ IF Len(loc.files_data) > 0 THEN BulkInsert(loc.files_data)
                                  ELSE UNCHANGED <<files, nextFileId, fts, audit>>
    /\ loc' = [loc EXCEPT !.files_data = <<>>]
    /\ pc' = "dirs"
    /\ UNCHANGED <<runVars, rng, jobIdx, snapIdx, memVars, dbExists, dbObjects,
                   snapshots, txn, diskVars, traceVars>>

\* lines 475-485: the directory rows
InsertDirs ==
    /\ pc = "dirs"
    /\ LET directories == config[jobIdx].directories
           dir_data == [k \in 1..Len(directories) |->
                          DirRow(loc.snapshot_id, loc.root_path, directories[k],
                                 loc.timestamp)]
       IN  BulkInsert(dir_data)
    /\ pc' = "update"
    /\ UNCHANGED <<runVars, rng, jobIdx, snapIdx, loc, memVars, dbExists,
                   dbObjects, snapshots, txn, diskVars, traceVars>>

\* lines 487-491: UPDATE snapshots SET file_count = ?, total_size = ? WHERE id = ?
\* the directories left out of the count written to the row
StatsFileCount_files_only(num_files, directories) == num_files

StatsFileCount(num_files, directories) == num_files + Len(directories)

\* WHERE job_id = ?: every row of the job instead of the one of the snapshot
StatsWhere_job(r, snapshot_id, job_id) == r.job_id = job_id

\* WHERE id = ?
StatsWhere(r, snapshot_id, job_id) == r.id = snapshot_id

UpdateStats ==
    /\ pc = "update"
    /\ LET hit == {r \in snapshots :
                     StatsWhere(r, loc.snapshot_id, config[jobIdx].id)}
           updated(r) ==
               [r EXCEPT !.file_count =
                           StatsFileCount(loc.num_files, config[jobIdx].directories),
                         !.total_size = loc.total_size]
           ids == {r.id : r \in hit}
           rowOf(id) == CHOOSE r \in hit : r.id = id
       IN  /\ snapshots' = (snapshots \ hit) \cup {updated(r) : r \in hit}
           /\ audit' =
                [audit EXCEPT
                   !.statUpdates =
                       [x \in DOMAIN @ \cup ids |->
                          IF x \in ids THEN DictGet(@, x, 0) + 1 ELSE @[x]],
                   !.rowsAtUpdate =
                       [x \in DOMAIN @ \cup ids |->
                          IF x \in ids
                          THEN Cardinality({f \in files : f.snapshot_id = x})
                          ELSE @[x]],
                   !.finalRow =
                       [x \in DOMAIN @ \cup ids |->
                          IF x \in ids THEN updated(rowOf(x)) ELSE @[x]]]
    /\ pc' = "track"
    /\ UNCHANGED <<runVars, rng, jobIdx, snapIdx, loc, memVars, dbExists,
                   dbObjects, files, fts, txn, nextFileId, diskVars, traceVars>>

(***************************************************************************)
(* generate_snapshot, lines 493-539: the cumulative size of the job and    *)
(* the entry appended to GENERATED_SNAPSHOTS.  Sizes are in megabytes.     *)
(***************************************************************************)
BaseSize(job_id) == IF ContainsDocuments(job_id) THEN 50000 ELSE 200000

BaseGrowth(job_id, s) ==
    IF ContainsDocuments(job_id) THEN RandInt(500, 2000, s)
                                 ELSE RandInt(2000, 8000, s)

\* lines 510-519: spikes and quiet weeks; [v |-> growth, s |-> rng state]
SpikedGrowth(base_growth, s) ==
    LET spike_chance == Random1000(s)
    IN  IF spike_chance.v >= 920
        THEN LET m == Uniform100(300, 800, spike_chance.s)
             IN  [v |-> (base_growth * m.v) \div 100, s |-> m.s]
        ELSE IF spike_chance.v >= 850
        THEN LET m == Uniform100(150, 250, spike_chance.s)
             IN  [v |-> (base_growth * m.v) \div 100, s |-> m.s]
        ELSE IF spike_chance.v < 150
        THEN LET m == Uniform100(10, 30, spike_chance.s)
             IN  [v |-> (base_growth * m.v) \div 100, s |-> m.s]
        ELSE [v |-> base_growth, s |-> spike_chance.s]

Max(a, b) == IF a >= b THEN a ELSE b
Min(a, b) == IF a <= b THEN a ELSE b

\* lines 525-527
ChangesCount(base_growth, s) ==
    LET u == Uniform100(80, 120, s)
    IN  [v |-> Max(50, Min((base_growth * u.v) \div 100, 50000)), s |-> u.s]

\* the entry with its timestamp cut to whole seconds
SnapshotEntry_seconds(timestamp, cumulative_size, num_files, directories, changes_count, root_path) ==
    [id |-> IntToStr(timestamp),
     timestamp |-> (timestamp \div MsPerSecond) * MsPerSecond,
     sizeBytes |-> cumulative_size,
     fileCount |-> num_files + Len(directories),
     changesCount |-> changes_count, status |-> "Complete",
     path |-> root_path]

\* lines 529-537
SnapshotEntry(timestamp, cumulative_size, num_files, directories, changes_count, root_path) ==
    [id |-> IntToStr(timestamp), timestamp |-> timestamp,
     sizeBytes |-> cumulative_size,
     fileCount |-> num_files + Len(directories),
     changesCount |-> changes_count, status |-> "Complete",
     path |-> root_path]

\* the growth added to the tracker of every job
AdvanceTracker_all(cs, job_id, growth) == [x \in DOMAIN cs |-> cs[x] + growth]

\* lines 521-523: CUMULATIVE_SIZES[job_id] += base_growth
AdvanceTracker(cs, job_id, growth) == DictSet(cs, job_id, cs[job_id] + growth)

TrackSnapshot ==
    /\ pc = "track"
    /\ LET job == config[jobIdx]
           gs == IF job.id \in DOMAIN GENERATED_SNAPSHOTS
                 THEN GENERATED_SNAPSHOTS
                 ELSE DictSet(GENERATED_SNAPSHOTS, job.id, <<>>)
           cs == IF job.id \in DOMAIN CUMULATIVE_SIZES
                 THEN CUMULATIVE_SIZES
                 ELSE DictSet(CUMULATIVE_SIZES, job.id, BaseSize(job.id))
           drawn == BaseGrowth(job.id, rng)
           base_growth == SpikedGrowth(drawn.v, drawn.s)
           cumulative_size == AdvanceTracker(cs, job.id, base_growth.v)[job.id]
           changes_count == ChangesCount(base_growth.v, base_growth.s)
       IN  /\ CUMULATIVE_SIZES' = AdvanceTracker(cs, job.id, base_growth.v)
           /\ audit' = [audit EXCEPT !.growths =
                           DictSet(@, job.id,
                                   Append(DictGet(@, job.id, <<>>), base_growth.v))]
           /\ GENERATED_SNAPSHOTS' =
                DictSet(gs, job.id,
                        Append(gs[job.id],
                               SnapshotEntry(loc.timestamp, cumulative_size,
                                             loc.num_files, job.directories,
                                             changes_count.v, loc.root_path)))
           /\ rng' = changes_count.s
    /\ loc' = NoLoc
    /\ snapIdx' = snapIdx + 1
    /\ pc' = "loop"
    /\ UNCHANGED <<runVars, jobIdx, dbVars, diskVars, traceVars>>

\* main, lines 669-697: the snapshots of a job are done, take the next job
NextJob ==
    /\ pc = "loop"
    /\ jobIdx <= Len(config)
    /\ snapIdx = config[jobIdx].num_snapshots
    /\ jobIdx' = jobIdx + 1
    /\ snapIdx' = 0
    /\ UNCHANGED <<pc, runVars, rng, loc, memVars, dbVars, diskVars, histVars>>

\* the commit and what follows it moved into `for job in JOBS`
Commit_in_job_loop ==
    /\ pc = "loop"
    /\ jobIdx <= Len(config)
    /\ snapIdx = config[jobIdx].num_snapshots
    /\ txn' = AfterCommit(txn)
    /\ audit' = CommitAudit(audit, txn)
    /\ pc' = "indexes"
    /\ UNCHANGED <<runVars, rng, jobIdx, snapIdx, loc, memVars, dbExists,
                   dbObjects, snapshots, files, fts, nextFileId, diskVars,
                   traceVars>>

\* main, lines 699-701: conn.commit()
Commit ==
    /\ pc = "loop"
    /\ jobIdx > Len(config)
    /\ txn' = AfterCommit(txn)
    /\ audit' = CommitAudit(audit, txn)
    /\ pc' = "indexes"
    /\ UNCHANGED <<runVars, rng, jobIdx, snapIdx, loc, memVars, dbExists,
                   dbObjects, snapshots, files, fts, nextFileId, diskVars,
                   traceVars>>

(***************************************************************************)
(* create_indexes_and_fts, lines 336-374, in its two scripts               *)
(***************************************************************************)
CreateIndexes ==
    /\ pc = "indexes"
    /\ dbObjects' = dbObjects \cup FileIndexes
    /\ txn' = AfterCommit(txn)
    /\ audit' = CommitAudit(audit, txn)
    /\ pc' = "fts"
    /\ UNCHANGED <<runVars, rng, jobIdx, snapIdx, loc, memVars, dbExists,
                   snapshots, files, fts, nextFileId, diskVars, traceVars>>

\* INSERT INTO files_fts(rowid, name, path) SELECT id, name, path FROM files
PopulateFts(f, rows) == f (+) SetToBag({FtsEntry(r) : r \in rows})

CreateFtsAndTriggers ==
    /\ pc = "fts"
    /\ dbObjects' = dbObjects \cup FtsObjects
    /\ fts' = PopulateFts(fts, files)
    /\ txn' = AfterCommit(txn)
    /\ audit' = [CommitAudit(audit, txn) EXCEPT
                    !.populates = @ + 1,
                    !.applied = [objects |-> dbObjects \cup FtsObjects,
                                 fts |-> PopulateFts(fts, files)]]
    /\ pc' = "close"
    /\ UNCHANGED <<runVars, rng, jobIdx, snapIdx, loc, memVars, dbExists,
                   snapshots, files, nextFileId, diskVars, traceVars>>

\* main, lines 706-709: PRAGMA optimize, conn.close()
CloseDb ==
    /\ pc = "close"
    /\ pc' = "folders"
    /\ UNCHANGED <<runVars, rng, jobIdx, snapIdx, loc, memVars, dbVars,
                   diskVars, histVars>>

(***************************************************************************)
(* create_snapshot_folders, lines 542-555                                  *)
(***************************************************************************)
create_snapshot_folders ==
    /\ pc = "folders"
    /\ folders' = folders
         \cup {MOCK_DATA_DIR \o <<j>> : j \in DOMAIN GENERATED_SNAPSHOTS}
         \cup UNION {{MOCK_DATA_DIR \o
                        <<j, timestamp_to_folder_name(
                                 GENERATED_SNAPSHOTS[j][k].timestamp)>> :
                          k \in 1..Len(GENERATED_SNAPSHOTS[j])} :
                     j \in DOMAIN GENERATED_SNAPSHOTS}
    /\ pc' = "json"
    /\ UNCHANGED <<runVars, rng, jobIdx, snapIdx, loc, memVars, dbVars,
                   jobsJson, histVars>>

(***************************************************************************)
(* generate_jobs_json, lines 558-610                                       *)
(***************************************************************************)
JobEntry(job, generated, now_ms) ==
    LET snaps == IF job.id \in DOMAIN generated THEN generated[job.id] ELSE <<>>
        snapshots_sorted == SortedNewestFirst(snaps)
    IN  [id |-> job.id, name |-> job.name, sourcePath |-> job.source_path,
         destPath |-> Resolve(MOCK_DATA_DIR \o <<job.id>>),
         mode |-> "TIME_MACHINE", status |-> "SUCCESS",
         destinationType |-> "LOCAL",
         scheduleInterval |-> IF ContainsDocuments(job.id) THEN 1440 ELSE 10080,
         lastRun |-> IF Len(snapshots_sorted) > 0
                     THEN snapshots_sorted[1].timestamp ELSE now_ms,
         snapshots |-> snapshots_sorted]

generate_jobs_json ==
    /\ pc = "json"
    /\ jobsJson' =
         [exists |-> TRUE,
          jobs |-> [k \in 1..Len(config) |->
                      JobEntry(config[k], GENERATED_SNAPSHOTS, now)]]
    /\ pc' = "done"
    /\ UNCHANGED <<runVars, rng, jobIdx, snapIdx, loc, memVars, dbVars,
                   folders, histVars>>

(***************************************************************************)
(* Writes of a consumer on table files once the run has ended: the         *)
(* triggers of lines 361-372 run with each statement.  The triggers work   *)
(* row by row, so the consumer is taken to write to the rows of one        *)
(* snapshot, the first of the database.                                    *)
(***************************************************************************)
ConsumerNames == {"renamed.txt", "notes_1.txt"}

ConsumerSnapshots == {r \in snapshots : \A q \in snapshots : r.id <= q.id}

ConsumerRows == {f \in files : \E r \in ConsumerSnapshots : f.snapshot_id = r.id}

ConsumerInsert ==
    /\ pc = "done"
    /\ writes < MaxWrites
    /\ \E snap \in ConsumerSnapshots, name \in ConsumerNames :
         InsertIntoFiles(<<[snapshot_id |-> snap.id,
                            path |-> snap.root_path \o "/" \o name,
                            name |-> name, parent_path |-> "", size |-> 1,
                            mtime |-> 0, inode |-> NULL, file_type |-> "file"]>>)
    /\ writes' = writes + 1
    /\ UNCHANGED <<pc, runVars, rng, jobIdx, snapIdx, loc, memVars, dbExists,
                   dbObjects, snapshots, txn, diskVars, curPop, prevPop,
                   uniqueViolated, audit>>

\* UPDATE files SET name = ?, path = ? WHERE id = ?
ConsumerUpdate ==
    /\ pc = "done"
    /\ writes < MaxWrites
    /\ \E old \in ConsumerRows, name \in ConsumerNames :
         LET new == [old EXCEPT !.name = name, !.path = "/moved/" \o name]
         IN  /\ files' = (files \ {old}) \cup {new}
             /\ fts' = IF "files_au" \in dbObjects
                       THEN files_au(fts, old, new) ELSE fts
    /\ writes' = writes + 1
    /\ UNCHANGED <<pc, runVars, rng, jobIdx, snapIdx, loc, memVars, dbExists,
                   dbObjects, snapshots, txn, nextFileId, diskVars, curPop,
                   prevPop, uniqueViolated, audit>>

\* DELETE FROM files WHERE id = ?
ConsumerDelete ==
    /\ pc = "done"
    /\ writes < MaxWrites
    /\ \E old \in ConsumerRows :
         /\ files' = files \ {old}
         /\ fts' = IF "files_ad" \in dbObjects THEN files_ad(fts, old) ELSE fts
    /\ writes' = writes + 1
    /\ UNCHANGED <<pc, runVars, rng, jobIdx, snapIdx, loc, memVars, dbExists,
                   dbObjects, snapshots, txn, nextFileId, diskVars, curPop,
                   prevPop, uniqueViolated, audit>>

(***************************************************************************)
(* The schema functions applied once more to the database of a finished    *)
(* run: create_schema (lines 300-333) and create_indexes_and_fts (lines    *)
(* 336-374), each as a whole.                                              *)
(***************************************************************************)
ReapplyCreateSchema ==
    /\ pc = "done"
    /\ audit.reapplied < MaxReapply
    /\ dbObjects' = dbObjects \cup SchemaObjects
    /\ txn' = AfterCommit(txn)
    /\ audit' = [CommitAudit(audit, txn) EXCEPT !.reapplied = @ + 1]
    /\ UNCHANGED <<pc, runVars, rng, jobIdx, snapIdx, loc, memVars, dbExists,
                   snapshots, files, fts, nextFileId, diskVars, traceVars>>

ReapplyCreateIndexesAndFts ==
    /\ pc = "done"
    /\ audit.reapplied < MaxReapply
    /\ dbObjects' = dbObjects \cup FileIndexes \cup FtsObjects
    /\ fts' = PopulateFts(fts, files)
    /\ txn' = AfterCommit(txn)
    /\ audit' = [CommitAudit(audit, txn) EXCEPT !.reapplied = @ + 1,
                                                !.populates = @ + 1]
    /\ UNCHANGED <<pc, runVars, rng, jobIdx, snapIdx, loc, memVars, dbExists,
                   snapshots, files, nextFileId, diskVars, traceVars>>

(***************************************************************************)
(* Specifications                                                          *)
(***************************************************************************)
Next ==
    \/ StartRun
    \/ create_schema
    \/ BeginTransaction
    \/ InsertSnapshot
    \/ GenerateFileStep
    \/ InsertRemaining
    \/ InsertDirs
    \/ UpdateStats
    \/ TrackSnapshot
    \/ NextJob
    \/ Commit
    \/ CreateIndexes
    \/ CreateFtsAndTriggers
    \/ CloseDb
    \/ create_snapshot_folders
    \/ generate_jobs_json
    \/ Fail

Spec == Init /\ [][Next]_vars

\* the generator and a consumer writing to files after a run
NextWrites == Next \/ ConsumerInsert \/ ConsumerUpdate \/ ConsumerDelete

SpecWrites == Init /\ [][NextWrites]_vars

\* the generator and the schema functions applied again after a run
NextReapply == Next \/ ReapplyCreateSchema \/ ReapplyCreateIndexesAndFts

SpecReapply == Init /\ [][NextReapply]_vars

(***************************************************************************)
(* Properties                                                              *)
(***************************************************************************)
RECURSIVE SumSizes(_)
SumSizes(rows) ==
    IF rows = {} THEN 0
    ELSE LET r == CHOOSE x \in rows : TRUE IN r.size + SumSizes(rows \ {r})

FileRowsOf(snapshot_id) ==
    {f \in files : f.snapshot_id = snapshot_id /\ f.file_type = "file"}

DirRowsOf(snapshot_id) ==
    {f \in files : f.snapshot_id = snapshot_id /\ f.file_type = "dir"}

\* generate_snapshot has returned for the row: its entry is tracked
Generated(r) ==
    /\ r.job_id \in DOMAIN GENERATED_SNAPSHOTS
    /\ \E k \in 1..Len(GENERATED_SNAPSHOTS[r.job_id]) :
         GENERATED_SNAPSHOTS[r.job_id][k].timestamp = r.timestamp

\* C1: once generate_snapshot has finished for a snapshot, its file_count is
\* the number of its rows of file_type 'file' (directories not counted) and
\* its total_size is the sum of the sizes of those rows.
C1_AggregateConsistency ==
    \A r \in snapshots :
        Generated(r) =>
            /\ r.file_count = Cardinality(FileRowsOf(r.id))
            /\ r.total_size = SumSizes(FileRowsOf(r.id))

\* C2: in a generated snapshot every row of file_type 'file' has a
\* parent_path equal to the path of a row of file_type 'dir' of the same
\* snapshot.
C2_ReferentialIntegrity ==
    \A r \in snapshots :
        Generated(r) =>
            \A f \in FileRowsOf(r.id) :
                \E d \in DirRowsOf(r.id) : d.path = f.parent_path

\* the search structure and its triggers are built
FtsBuilt == FtsObjects \subseteq dbObjects

\* SELECT rowid FROM files_fts WHERE name MATCH the exact name
Search(name) == {e[1] : e \in {x \in BagToSet(fts) : x[2] = name}}

\* C3: once the search structure is built, and after any inserts, updates
\* and deletes on files, it holds for every files row exactly one entry, which
\* carries the row's current (name, path), and no entry for an id that is not
\* in files; a search on a row's exact name returns the row's id.
C3_SearchConsistency ==
    FtsBuilt =>
        /\ \A f \in files :
             /\ CopiesIn(FtsEntry(f), fts) = 1
             /\ \A e \in BagToSet(fts) : e[1] = f.id => e = FtsEntry(f)
             /\ f.id \in Search(f.name)
        /\ \A e \in BagToSet(fts) : \E f \in files : f.id = e[1]

C3_Witness ==
    /\ FtsBuilt
    /\ writes >= 2
    /\ \E f \in files : f.name = "renamed.txt" /\ f.path = "/moved/renamed.txt"
    /\ \E f \in files : f.name # "renamed.txt"

\* C4: the snapshots of a job are inserted in strictly increasing timestamp
\* order, no two rows share (job_id, timestamp) and no insert violates
\* UNIQUE(job_id, timestamp).
C4_UniqueTimestamps ==
    /\ ~uniqueViolated
    /\ \A r1, r2 \in snapshots :
         (r1.job_id = r2.job_id /\ r1.id < r2.id) => r1.timestamp < r2.timestamp

C4_Witness ==
    \E r1, r2, r3 \in snapshots :
        /\ r1.job_id = r2.job_id /\ r2.job_id = r3.job_id
        /\ r1.id < r2.id /\ r2.id < r3.id

JsonJobs == {jobsJson.jobs[k] : k \in 1..Len(jobsJson.jobs)}

EntriesOf(j) == {j.snapshots[k] : k \in 1..Len(j.snapshots)}

\* C5: after a completed run every snapshot entry emitted for a job has
\* exactly one snapshots row with the same job id and the same millisecond
\* timestamp, and every snapshots row has such an entry.
C5_RegistryRoundTrip ==
    pc = "done" =>
        /\ \A j \in JsonJobs : \A e \in EntriesOf(j) :
             /\ Cardinality({r \in snapshots :
                               r.job_id = j.id /\ r.timestamp = e.timestamp}) = 1
             /\ e.id = IntToStr(e.timestamp)
        /\ \A r \in snapshots :
             \E j \in JsonJobs : j.id = r.job_id /\
                 \E e \in EntriesOf(j) : e.timestamp = r.timestamp

C5_Witness ==
    /\ pc = "done"
    /\ Cardinality(JsonJobs) = 2
    /\ \E j \in JsonJobs : \E e \in EntriesOf(j) : e.timestamp % MsPerSecond # 0

FolderOnDisk(path) == \E p \in folders : Resolve(p) = path

\* all snapshots of all configured jobs are inserted
AllInserted ==
    \A k \in 1..Len(config) :
        Cardinality({r \in snapshots : r.job_id = config[k].id})
            = config[k].num_snapshots

\* C6: the registry is written only once every snapshot of every job is
\* inserted and committed, and when a run has failed no registry file on
\* disk (one of an earlier run included) references a job folder or snapshot
\* folder that the run removed.
C6_NoStaleRegistry ==
    /\ pc = "done" => (txn = "committed" /\ AllInserted)
    /\ (pc = "failed" /\ jobsJson.exists) =>
         \A j \in JsonJobs :
             /\ FolderOnDisk(j.destPath)
             /\ \A e \in EntriesOf(j) : FolderOnDisk(e.path)

\* C7 as stated: in the emitted snapshot list of a job, of two consecutive
\* entries the earlier one has the smaller timestamp.
C7_Ascending ==
    jobsJson.exists =>
        \A j \in JsonJobs : \A k \in 1..(Len(j.snapshots) - 1) :
            j.snapshots[k].timestamp < j.snapshots[k + 1].timestamp

\* C7 as amended: in the emitted snapshot list of a job, of two consecutive
\* entries the earlier one has the larger timestamp (newest first).
C7_NewestFirst ==
    jobsJson.exists =>
        \A j \in JsonJobs :
            /\ \A k \in 1..(Len(j.snapshots) - 1) :
                 j.snapshots[k].timestamp > j.snapshots[k + 1].timestamp
            /\ Len(j.snapshots) > 0 => j.lastRun = j.snapshots[1].timestamp

C7_Witness ==
    /\ jobsJson.exists
    /\ \E j \in JsonJobs : Len(j.snapshots) >= 3

\* C8: two runs with the same seed generate, for every job and snapshot
\* index, the same sequence of (directory, name, size, inode), whatever the
\* clock of each run and whatever the other jobs of its configuration.
C8_SameSeedSamePopulation ==
    pc = "done" =>
        \A p \in curPop, q \in prevPop :
            (p.job = q.job /\ p.index = q.index) => p.rows = q.rows

SnapshotFolder(r) ==
    MOCK_DATA_DIR \o <<r.job_id, timestamp_to_folder_name(r.timestamp)>>

\* C9: after a completed run every snapshot row has on disk the folder
\* <destRoot>/<jobId>/<YYYY-MM-DD-HHMMSS> named after its timestamp, at the
\* row's root_path, and two snapshots of a job never share a folder.
C9_SnapshotFolders ==
    pc = "done" =>
        /\ \A r \in snapshots :
             /\ SnapshotFolder(r) \in folders
             /\ Resolve(SnapshotFolder(r)) = r.root_path
        /\ \A r1, r2 \in snapshots :
             (r1.job_id = r2.job_id /\ r1.id # r2.id) =>
                 /\ SnapshotFolder(r1) # SnapshotFolder(r2)
                 /\ r1.root_path # r2.root_path

C9_Witness ==
    /\ pc = "done"
    /\ \E r1, r2 \in snapshots :
         /\ r1.job_id = r2.job_id /\ r1.id # r2.id
         /\ r1.timestamp \div 60000 = r2.timestamp \div 60000
         /\ SnapshotFolder(r1) \in folders /\ SnapshotFolder(r2) \in folders

\* C10: the fileCount of a snapshot's entry equals the file_count of the
\* snapshots row with the same job id and timestamp, from the moment the
\* entry exists and in the registry a completed run has written.
C10_FileCountAgrees ==
    /\ \A id \in DOMAIN GENERATED_SNAPSHOTS :
         \A k \in 1..Len(GENERATED_SNAPSHOTS[id]) :
             \E r \in snapshots :
                 /\ r.job_id = id
                 /\ r.timestamp = GENERATED_SNAPSHOTS[id][k].timestamp
                 /\ r.file_count = GENERATED_SNAPSHOTS[id][k].fileCount
    /\ pc = "done" =>
         \A j \in JsonJobs : \A e \in EntriesOf(j) :
             \E r \in snapshots :
                 /\ r.job_id = j.id /\ r.timestamp = e.timestamp
                 /\ r.file_count = e.fileCount

C10_Witness ==
    /\ pc = "done"
    /\ \E j \in JsonJobs : \E e \in EntriesOf(j) : e.fileCount >= 3

\* C11: while a snapshot is generated there is no state in which one of its
\* file rows exists and one of its directory rows is still to be inserted.
C11_DirectoriesFirst ==
    pc \in {"files", "dirs", "update", "track"} =>
        (FileRowsOf(loc.snapshot_id) # {} =>
            Cardinality(DirRowsOf(loc.snapshot_id))
                = Len(config[jobIdx].directories))

\* the snapshots rows of one job, one right after the other
Consecutive(r1, r2) ==
    /\ r1.job_id = r2.job_id
    /\ r1.id < r2.id
    /\ ~\E q \in snapshots : q.job_id = r1.job_id /\ r1.id < q.id /\ q.id < r2.id

\* C16: of two consecutive generated snapshots of a job the later one has at
\* least as many file rows as the earlier one.
C16_PopulationGrows ==
    \A r1, r2 \in snapshots :
        (Consecutive(r1, r2) /\ Generated(r1) /\ Generated(r2)) =>
            Cardinality(FileRowsOf(r2.id)) >= Cardinality(FileRowsOf(r1.id))

\* every snapshot row has had its UPDATE, the last statement of its snapshot
AllFinalized ==
    \A r \in snapshots : DictGet(audit.statUpdates, r.id, 0) >= 1

\* C12: the indexes on files, the search structure and its triggers exist
\* only once every row of every job has been inserted in one transaction and
\* that transaction has been committed exactly once; no row is bulk-inserted
\* after their construction began, and the search structure is populated in
\* one pass.
C12_IndexesAfterBulkLoad ==
    /\ (dbObjects \cap (FileIndexes \cup FtsObjects) # {}) =>
         /\ AllInserted
         /\ AllFinalized
         /\ audit.begins = 1
         /\ audit.commits = 1
    /\ ~audit.lateInsert
    /\ audit.populates <= 1
    /\ FtsBuilt => audit.populates = 1
    /\ audit.populates = 1 => fts = SetToBag({FtsEntry(f) : f \in files})

C12_Witness ==
    /\ pc = "done"
    /\ FtsBuilt
    /\ FileIndexes \subseteq dbObjects
    /\ Len(config) = 2
    /\ Cardinality(files) >= 8

\* the number of files rows the run generated for the snapshot of row r
RowsGenerated(r) ==
    LET job == CHOOSE j \in {config[k] : k \in 1..Len(config)} : j.id = r.job_id
        p == CHOOSE q \in curPop :
                 /\ q.job = r.job_id
                 /\ SnapshotTimestamp(now, job.num_snapshots, q.index) = r.timestamp
    IN  Len(p.rows) + Len(job.directories)

\* C13: a snapshot row is inserted once, with zero totals; its file_count and
\* total_size are written once, when all file and directory rows of the
\* snapshot are inserted; after that the row is not modified and no files row
\* is added to the snapshot.
C13_FinalizedOnce ==
    \A r \in snapshots :
        /\ Cardinality({q \in snapshots : q.id = r.id}) = 1
        /\ DictGet(audit.snapInserts, r.id, 0) = 1
        /\ DictGet(audit.statUpdates, r.id, 0) <= 1
        /\ DictGet(audit.statUpdates, r.id, 0) = 0 =>
             (r.file_count = 0 /\ r.total_size = 0)
        /\ DictGet(audit.statUpdates, r.id, 0) = 1 =>
             /\ r = audit.finalRow[r.id]
             /\ audit.rowsAtUpdate[r.id] = RowsGenerated(r)
             /\ Cardinality({f \in files : f.snapshot_id = r.id})
                    = audit.rowsAtUpdate[r.id]

C13_Witness ==
    /\ pc = "done"
    /\ \E r1, r2 \in snapshots :
         /\ Consecutive(r1, r2)
         /\ audit.statUpdates[r1.id] = 1 /\ audit.statUpdates[r2.id] = 1
         /\ r1.file_count > 0 /\ r2.file_count > 0

RECURSIVE SumFirst(_, _)
SumFirst(seq, k) == IF k = 0 THEN 0 ELSE seq[k] + SumFirst(seq, k - 1)

\* C14: the size in the entry of the k-th snapshot of a job is the job's
\* starting size plus the growth amounts of snapshots 1..k; every growth
\* amount is positive, so the size strictly increases from one snapshot to
\* the next; the tracker of a job is its last reported size, whatever other
\* job is generated meanwhile; jobs.json reports the same sizes.
C14_CumulativeSize ==
    /\ \A j \in DOMAIN GENERATED_SNAPSHOTS :
         LET g == GENERATED_SNAPSHOTS[j]
             gr == DictGet(audit.growths, j, <<>>)
         IN  /\ Len(g) = Len(gr)
             /\ \A k \in 1..Len(g) :
                  /\ gr[k] > 0
                  /\ g[k].sizeBytes = BaseSize(j) + SumFirst(gr, k)
                  /\ k > 1 => g[k].sizeBytes > g[k - 1].sizeBytes
             /\ Len(g) > 0 =>
                  (j \in DOMAIN CUMULATIVE_SIZES
                     /\ CUMULATIVE_SIZES[j] = g[Len(g)].sizeBytes)
    /\ pc = "done" =>
         \A j \in JsonJobs : \A k \in 1..Len(j.snapshots) :
             j.snapshots[Len(j.snapshots) - k + 1].sizeBytes
                 = BaseSize(j.id) + SumFirst(audit.growths[j.id], k)

C14_Witness ==
    /\ pc = "done"
    /\ Cardinality(DOMAIN GENERATED_SNAPSHOTS) = 2
    /\ \A j \in DOMAIN GENERATED_SNAPSHOTS : Len(GENERATED_SNAPSHOTS[j]) >= 2
    /\ \E j \in DOMAIN audit.growths : \E k \in 1..Len(audit.growths[j]) :
         audit.growths[j][k] < 500

\* C15: create_schema and create_indexes_and_fts applied a second time to a
\* database leave the tables, indexes, triggers and the contents of the
\* search structure as they were after the first application.
C15_Idempotent ==
    audit.reapplied > 0 =>
        /\ dbObjects = audit.applied.objects
        /\ fts = audit.applied.fts

====
